---- MODULE Spec2Model ----
(***************************************************************************)
(* Model of app/services/embeddings_service.py: the token limiter          *)
(* limit_token_length and the singleton OpenAIEmbeddingsService with its   *)
(* embedding cache.                                                        *)
(*                                                                         *)
(* A text is a sequence of characters.  The tokenizer collaborator works   *)
(* on bytes: "a" and "b" are one byte each, "E" is a two-byte character    *)
(* (bytes "E1" "E2") and "?" is the replacement character that decoding    *)
(* puts in place of an incomplete byte sequence.                           *)
(***************************************************************************)
EXTENDS Integers, Sequences, FiniteSets, TLC

\* Stand-in for the default max_tokens of limit_token_length (2000 in the
\* source), scaled down so that truncation happens on short texts.
DefaultMaxTokens == 2

\* Longest list handed to compute_batch_embeddings.
MaxBatch == 2

\* The counter of opened provider connections saturates here.
MaxOpened == 2

\* Longest text and largest max_tokens handed to limit_token_length alone.
MaxTextLen == 3
MaxTokenLimit == 3

-----------------------------------------------------------------------------
(* Tokenizer collaborator: tiktoken.get_encoding("cl100k_base")            *)

\* The UTF-8 bytes of one character.
CharBytes(c) ==
    IF c = "E" THEN <<"E1", "E2">> ELSE <<c>>

RECURSIVE TextBytes(_)
TextBytes(text) ==
    IF text = <<>> THEN <<>>
    ELSE CharBytes(Head(text)) \o TextBytes(Tail(text))

\* Byte-pair merging: the vocabulary holds the merged token "ab"; every
\* other byte is a token of its own.  A token is the sequence of its bytes.
RECURSIVE MergeBytes(_)
MergeBytes(bytes) ==
    IF bytes = <<>> THEN <<>>
    ELSE IF Len(bytes) >= 2 /\ bytes[1] = "a" /\ bytes[2] = "b"
         THEN <<(<<"a", "b">>)>> \o MergeBytes(SubSeq(bytes, 3, Len(bytes)))
         ELSE <<(<<bytes[1]>>)>> \o MergeBytes(Tail(bytes))

\* encoding.encode(text)
encode(text) == MergeBytes(TextBytes(text))

RECURSIVE TokenBytes(_)
TokenBytes(tokens) ==
    IF tokens = <<>> THEN <<>>
    ELSE Head(tokens) \o TokenBytes(Tail(tokens))

\* bytes.decode("utf-8", errors="replace"): a complete "E1" "E2" pair is the
\* character "E", a byte of an incomplete pair becomes "?".
RECURSIVE DecodeBytes(_)
DecodeBytes(bytes) ==
    IF bytes = <<>> THEN <<>>
    ELSE IF bytes[1] = "E1"
         THEN IF Len(bytes) >= 2 /\ bytes[2] = "E2"
              THEN <<"E">> \o DecodeBytes(SubSeq(bytes, 3, Len(bytes)))
              ELSE <<"?">> \o DecodeBytes(Tail(bytes))
         ELSE IF bytes[1] = "E2"
              THEN <<"?">> \o DecodeBytes(Tail(bytes))
              ELSE <<bytes[1]>> \o DecodeBytes(Tail(bytes))

\* encoding.decode(tokens)
decode(tokens) == DecodeBytes(TokenBytes(tokens))

\* limit_token_length keeping one token more than max_tokens.
limit_token_lengthOffByOne(text, max_tokens) ==
    LET tokens == encode(text)
    IN  IF Len(tokens) > max_tokens
        THEN decode(SubSeq(tokens, 1, max_tokens + 1))
        ELSE text

\* limit_token_length comparing the number of characters with max_tokens.
limit_token_lengthCountsChars(text, max_tokens) ==
    LET tokens == encode(text)
    IN  IF Len(text) > max_tokens
        THEN decode(SubSeq(tokens, 1, max_tokens))
        ELSE text

\* limit_token_length(text, max_tokens)
limit_token_length(text, max_tokens) ==
    LET tokens == encode(text)
    IN  IF Len(tokens) > max_tokens
        THEN decode(SubSeq(tokens, 1, max_tokens))
        ELSE text

-----------------------------------------------------------------------------
(* Inputs                                                                  *)

\* DefaultMaxTokens - 1 one-token characters.
Pad == [i \in 1..(DefaultMaxTokens - 1) |-> "b"]

ShortText == <<"a">>
FullText == Pad \o <<"a", "b">>
LongText == Pad \o <<"a", "b", "a">>
LongMultibyteText == Pad \o <<"E", "a">>
CutText == Pad \o <<"?">>

\* The texts callers pass: one well within the limit, one exactly at the
\* limit, one token over it, one that is cut inside a character, and the
\* text that cut leaves.
Texts == {ShortText, FullText, LongText, LongMultibyteText, CutText}

DefaultModel == "text-embedding-3-small"
Models == {DefaultModel, "text-embedding-3-large"}

RECURSIVE SeqsUpTo(_, _)
SeqsUpTo(S, n) ==
    IF n = 0 THEN {<<>>}
    ELSE LET shorter == SeqsUpTo(S, n - 1)
         IN  shorter \cup {Append(s, x) : s \in {q \in shorter : Len(q) = n - 1}, x \in S}

\* The arguments of limit_token_length called on its own: every text of at
\* most MaxTextLen characters, and the limits 0..MaxTokenLimit.
Chars == {"a", "b", "E", "?"}
LimitTexts == SeqsUpTo(Chars, MaxTextLen)
TokenLimits == 0..MaxTokenLimit

\* The lists callers pass to compute_batch_embeddings: built from a text
\* the cache can hold and a text over the token limit.
Batches == SeqsUpTo({ShortText, LongText}, MaxBatch)

-----------------------------------------------------------------------------
(* Provider collaborator: langchain_openai.OpenAIEmbeddings                *)

CharCode(c) ==
    CASE c = "a" -> 1
      [] c = "b" -> 2
      [] c = "E" -> 3
      [] OTHER   -> 4

RECURSIVE TextCode(_)
TextCode(text) ==
    IF text = <<>> THEN 0
    ELSE CharCode(text[Len(text)]) + 5 * TextCode(SubSeq(text, 1, Len(text) - 1))

ModelCode(model) == IF model = DefaultModel THEN 1 ELSE 2

\* embeddings_model.embed_query(text): the vector of a text under a model.
embed_query(model, text) == <<ModelCode(model), TextCode(text)>>

\* embeddings_model.embed_documents(texts): one vector per text, in order.
embed_documents(model, texts) ==
    [i \in 1..Len(texts) |-> embed_query(model, texts[i])]

\* np.array(v).tolist() and np.array(v): a fresh sequence with the
\* elements of v.
NpArray(v) == [i \in 1..Len(v) |-> v[i]]

-----------------------------------------------------------------------------
(* State                                                                   *)

VARIABLES
    objs,       \* the OpenAIEmbeddingsService objects allocated so far
    instance,   \* OpenAIEmbeddingsService._instance: 0 is None, else an index of objs
    api_key,    \* settings.openai_api_key is set
    handed,     \* the objects a constructor call has returned to a caller
    first,      \* the first constructor call that returned: its object and model
    opened,     \* provider connections opened so far
    embedded,   \* the texts embed_query has embedded successfully
    last,       \* the latest call: its arguments and what the caller got
    prev,       \* the call before it
    threads     \* concurrent callers: where each is in its call, and its locals

vars == <<objs, instance, api_key, handed, first, opened, embedded, last, prev, threads>>

\* The callers that run concurrently.
Callers == {"A", "B"}

\* A caller that has not called anything yet.
IdleThread ==
    [pc |-> "idle", model |-> "", phase |-> "", saw_none |-> FALSE, own |-> 0,
     self |-> 0, ret |-> 0, text |-> <<>>, effective |-> <<>>, emb |-> <<>>,
     used_model |-> "", missed |-> FALSE, called |-> FALSE, outcome |-> "none"]

EmptyCache == [k \in {} |-> <<>>]

\* super().__new__(cls): an object without attributes.
NewObject ==
    [initialized |-> FALSE, has_model |-> FALSE, embeddings_model |-> "",
     has_cache |-> FALSE, cache |-> EmptyCache]

NoCall ==
    [op |-> "none", model |-> "", text |-> <<>>, texts |-> <<>>,
     outcome |-> "none", cause |-> "none", ret |-> 0, result |-> <<>>,
     results |-> <<>>, calls |-> 0, sent |-> <<>>, sent_texts |-> <<>>,
     provider_raised |-> FALSE, keys |-> {},
     had_key |-> FALSE, connects |-> FALSE, was_initialized |-> FALSE,
     max_tokens |-> 0, limited |-> <<>>]

NoPrev ==
    [op |-> "none", text |-> <<>>, outcome |-> "none", result |-> <<>>, keys |-> {},
     max_tokens |-> 0, limited |-> <<>>]

\* What is remembered of a call once the next one is made.
Summary(call) ==
    [op |-> call.op, text |-> call.text, outcome |-> call.outcome,
     result |-> call.result, keys |-> call.keys,
     max_tokens |-> call.max_tokens, limited |-> call.limited]

Init ==
    /\ objs = <<>>
    /\ instance = 0
    /\ api_key \in BOOLEAN
    /\ handed = {}
    /\ first = [id |-> 0, model |-> ""]
    /\ opened = 0
    /\ embedded = {}
    /\ last = NoCall
    /\ prev = NoPrev
    /\ threads = [c \in Callers |-> IdleThread]

-----------------------------------------------------------------------------
(* OpenAIEmbeddingsService: construction                                   *)

\* __init__ setting the initialized flag before the credential check.
__init__FlagFirst(self, model, key, connects) ==
    IF ~self.initialized /\ ~key
    THEN [self |-> [self EXCEPT !.initialized = TRUE],
          raised |-> "EnvironmentError", cause |-> "none",
          provider_raised |-> FALSE, opened |-> FALSE]
    ELSE IF ~self.initialized /\ ~connects
    THEN [self |-> [self EXCEPT !.initialized = TRUE],
          raised |-> "ProviderError", cause |-> "none",
          provider_raised |-> TRUE, opened |-> FALSE]
    ELSE LET connected ==
                 IF ~self.initialized
                 THEN [self EXCEPT !.has_model = TRUE, !.embeddings_model = model]
                 ELSE self
         IN  [self |-> [connected EXCEPT !.has_cache = TRUE, !.cache = EmptyCache,
                                         !.initialized = TRUE],
              raised |-> "none", cause |-> "none",
              provider_raised |-> FALSE, opened |-> ~self.initialized]

\* __init__ without the hasattr(self, 'initialized') test.
__init__Unguarded(self, model, key, connects) ==
    IF ~key
    THEN [self |-> self, raised |-> "EnvironmentError", cause |-> "none",
          provider_raised |-> FALSE, opened |-> FALSE]
    ELSE IF ~connects
    THEN [self |-> self, raised |-> "ProviderError", cause |-> "none",
          provider_raised |-> TRUE, opened |-> FALSE]
    ELSE [self |-> [self EXCEPT !.has_model = TRUE, !.embeddings_model = model,
                                !.has_cache = TRUE, !.cache = EmptyCache,
                                !.initialized = TRUE],
          raised |-> "none", cause |-> "none",
          provider_raised |-> FALSE, opened |-> TRUE]

\* __init__(self, model).  key: settings.openai_api_key is set; connects:
\* OpenAIEmbeddings(model=..., api_key=...) returns instead of raising.
\* raised is the exception that leaves __init__, cause its __cause__.
__init__(self, model, key, connects) ==
    IF ~self.initialized /\ ~key
    THEN [self |-> self, raised |-> "EnvironmentError", cause |-> "none",
          provider_raised |-> FALSE, opened |-> FALSE]
    ELSE IF ~self.initialized /\ ~connects
    THEN [self |-> self, raised |-> "ProviderError", cause |-> "none",
          provider_raised |-> TRUE, opened |-> FALSE]
    ELSE LET connected ==
                 IF ~self.initialized
                 THEN [self EXCEPT !.has_model = TRUE, !.embeddings_model = model]
                 ELSE self
         IN  [self |-> [connected EXCEPT !.has_cache = TRUE, !.cache = EmptyCache,
                                         !.initialized = TRUE],
              raised |-> "none", cause |-> "none",
              provider_raised |-> FALSE, opened |-> ~self.initialized]

\* __new__ without the "cls._instance is None" test: a new object each time.
__new__Always(os, inst, model, key, connects) ==
    LET os1 == Append(os, NewObject)
        id == Len(os1)
        r == __init__(os1[id], model, key, connects)
    IN  [objs |-> [os1 EXCEPT ![id] = r.self], instance |-> id, ret |-> id,
         raised |-> r.raised, cause |-> r.cause,
         provider_raised |-> r.provider_raised, opened |-> r.opened]

\* __new__(cls, model) on the heap os with _instance = inst.
__new__(os, inst, model, key, connects) ==
    IF inst = 0
    THEN LET os1 == Append(os, NewObject)
             id == Len(os1)
             r == __init__(os1[id], model, key, connects)
         IN  [objs |-> [os1 EXCEPT ![id] = r.self], instance |-> id, ret |-> id,
              raised |-> r.raised, cause |-> r.cause,
              provider_raised |-> r.provider_raised, opened |-> r.opened]
    ELSE [objs |-> os, instance |-> inst, ret |-> inst,
          raised |-> "none", cause |-> "none",
          provider_raised |-> FALSE, opened |-> FALSE]

\* OpenAIEmbeddingsService(model): __new__, then __init__ on the object it
\* returned.
Construct(os, inst, model, key, connects) ==
    LET n == __new__(os, inst, model, key, connects)
    IN  IF n.raised # "none" THEN n
        ELSE LET r == __init__(n.objs[n.ret], model, key, connects)
             IN  [objs |-> [n.objs EXCEPT ![n.ret] = r.self], instance |-> n.instance,
                  ret |-> n.ret, raised |-> r.raised, cause |-> r.cause,
                  provider_raised |-> r.provider_raised,
                  opened |-> n.opened \/ r.opened]

Initialized(os, inst) == inst # 0 /\ os[inst].initialized

GetInstance(model) ==
    \E connects \in BOOLEAN :
        LET r == Construct(objs, instance, model, api_key, connects)
            ok == r.raised = "none"
        IN  /\ objs' = r.objs
            /\ instance' = r.instance
            /\ handed' = IF ok THEN handed \cup {r.ret} ELSE handed
            /\ first' = IF ok /\ first.id = 0
                        THEN [id |-> r.ret, model |-> model] ELSE first
            /\ opened' = IF r.opened /\ opened < MaxOpened THEN opened + 1 ELSE opened
            /\ last' = [NoCall EXCEPT !.op = "get_instance", !.model = model,
                                      !.outcome = IF ok THEN "ok" ELSE r.raised,
                                      !.cause = r.cause,
                                      !.provider_raised = r.provider_raised,
                                      !.ret = IF ok THEN r.ret ELSE 0,
                                      !.had_key = api_key, !.connects = connects,
                                      !.was_initialized = Initialized(objs, instance)]
            /\ prev' = Summary(last)
            /\ UNCHANGED <<api_key, embedded, threads>>

\* The configuration collaborator: the credential appears or disappears.
SetApiKey ==
    /\ api_key' = ~api_key
    /\ UNCHANGED <<objs, instance, handed, first, opened, embedded, last, prev, threads>>

-----------------------------------------------------------------------------
(* OpenAIEmbeddingsService: embeddings and the cache                       *)

\* self.cache[text] = text_embedding
Store(cache, key, embedding) ==
    [k \in DOMAIN cache \cup {key} |-> IF k = key THEN embedding ELSE cache[k]]

\* compute_embedding storing the vector under the text it was called with.
compute_embeddingKeyedByArgument(self, text, provider_ok) ==
    LET none == [self |-> self, raised |-> "none", cause |-> "none", result |-> <<>>,
                 calls |-> 0, sent |-> <<>>, provider_raised |-> FALSE]
    IN  IF ~self.has_cache
        THEN [none EXCEPT !.raised = "AttributeError"]
        ELSE IF text \in DOMAIN self.cache
        THEN [none EXCEPT !.result = self.cache[text]]
        ELSE LET effective == limit_token_length(text, DefaultMaxTokens)
             IN  IF ~self.has_model
                 THEN [none EXCEPT !.raised = "EmbeddingComputationError",
                                   !.cause = "AttributeError"]
                 ELSE IF ~provider_ok
                 THEN [none EXCEPT !.raised = "EmbeddingComputationError",
                                   !.cause = "ProviderError",
                                   !.calls = 1, !.sent = effective,
                                   !.provider_raised = TRUE]
                 ELSE LET text_embedding == embed_query(self.embeddings_model, effective)
                          cache == Store(self.cache, text, text_embedding)
                      IN  [none EXCEPT !.self = [self EXCEPT !.cache = cache],
                                       !.result = NpArray(cache[text]),
                                       !.calls = 1, !.sent = effective]

\* compute_embedding reserving the cache entry before the provider call.
compute_embeddingStoresFirst(self, text, provider_ok) ==
    LET none == [self |-> self, raised |-> "none", cause |-> "none", result |-> <<>>,
                 calls |-> 0, sent |-> <<>>, provider_raised |-> FALSE]
    IN  IF ~self.has_cache
        THEN [none EXCEPT !.raised = "AttributeError"]
        ELSE IF text \in DOMAIN self.cache
        THEN [none EXCEPT !.result = self.cache[text]]
        ELSE LET effective == limit_token_length(text, DefaultMaxTokens)
             IN  IF ~self.has_model
                 THEN [none EXCEPT !.raised = "EmbeddingComputationError",
                                   !.cause = "AttributeError"]
                 ELSE IF ~provider_ok
                 THEN [none EXCEPT !.self = [self EXCEPT !.cache =
                                                Store(self.cache, effective, <<>>)],
                                   !.raised = "EmbeddingComputationError",
                                   !.cause = "ProviderError",
                                   !.calls = 1, !.sent = effective,
                                   !.provider_raised = TRUE]
                 ELSE LET text_embedding == embed_query(self.embeddings_model, effective)
                          cache == Store(self.cache, effective, text_embedding)
                      IN  [none EXCEPT !.self = [self EXCEPT !.cache = cache],
                                       !.result = NpArray(cache[effective]),
                                       !.calls = 1, !.sent = effective]

\* compute_embedding keeping only the newest entry in the cache.
compute_embeddingEvicts(self, text, provider_ok) ==
    LET none == [self |-> self, raised |-> "none", cause |-> "none", result |-> <<>>,
                 calls |-> 0, sent |-> <<>>, provider_raised |-> FALSE]
    IN  IF ~self.has_cache
        THEN [none EXCEPT !.raised = "AttributeError"]
        ELSE IF text \in DOMAIN self.cache
        THEN [none EXCEPT !.result = self.cache[text]]
        ELSE LET effective == limit_token_length(text, DefaultMaxTokens)
             IN  IF ~self.has_model
                 THEN [none EXCEPT !.raised = "EmbeddingComputationError",
                                   !.cause = "AttributeError"]
                 ELSE IF ~provider_ok
                 THEN [none EXCEPT !.raised = "EmbeddingComputationError",
                                   !.cause = "ProviderError",
                                   !.calls = 1, !.sent = effective,
                                   !.provider_raised = TRUE]
                 ELSE LET text_embedding == embed_query(self.embeddings_model, effective)
                          cache == Store(EmptyCache, effective, text_embedding)
                      IN  [none EXCEPT !.self = [self EXCEPT !.cache = cache],
                                       !.result = NpArray(cache[effective]),
                                       !.calls = 1, !.sent = effective]

\* compute_embedding(self, text).  provider_ok: embed_query returns instead
\* of raising.  calls counts the embed_query calls made, sent is the text
\* handed to embed_query.
compute_embedding(self, text, provider_ok) ==
    LET none == [self |-> self, raised |-> "none", cause |-> "none", result |-> <<>>,
                 calls |-> 0, sent |-> <<>>, provider_raised |-> FALSE]
    IN  IF ~self.has_cache
        THEN [none EXCEPT !.raised = "AttributeError"]
        ELSE IF text \in DOMAIN self.cache
        THEN [none EXCEPT !.result = self.cache[text]]
        ELSE LET effective == limit_token_length(text, DefaultMaxTokens)
             IN  IF ~self.has_model
                 THEN [none EXCEPT !.raised = "EmbeddingComputationError",
                                   !.cause = "AttributeError"]
                 ELSE IF ~provider_ok
                 THEN [none EXCEPT !.raised = "EmbeddingComputationError",
                                   !.cause = "ProviderError",
                                   !.calls = 1, !.sent = effective,
                                   !.provider_raised = TRUE]
                 ELSE LET text_embedding == embed_query(self.embeddings_model, effective)
                          cache == Store(self.cache, effective, text_embedding)
                      IN  [none EXCEPT !.self = [self EXCEPT !.cache = cache],
                                       !.result = NpArray(cache[effective]),
                                       !.calls = 1, !.sent = effective]

ComputeEmbedding(text) ==
    \E id \in handed, provider_ok \in BOOLEAN :
        LET r == compute_embedding(objs[id], text, provider_ok)
            ok == r.raised = "none"
        IN  /\ objs' = [objs EXCEPT ![id] = r.self]
            /\ embedded' = IF ok /\ r.calls = 1 THEN embedded \cup {r.sent} ELSE embedded
            /\ last' = [NoCall EXCEPT !.op = "compute_embedding", !.text = text,
                                      !.outcome = IF ok THEN "ok" ELSE r.raised,
                                      !.cause = r.cause,
                                      !.provider_raised = r.provider_raised,
                                      !.result = r.result,
                                      !.calls = r.calls, !.sent = r.sent]
            /\ prev' = Summary(last)
            /\ UNCHANGED <<instance, api_key, handed, first, opened, threads>>

\* compute_batch_embeddings returning the vectors last to first.
compute_batch_embeddingsReversed(self, texts, provider_ok) ==
    LET none == [self |-> self, raised |-> "none", cause |-> "none", results |-> <<>>,
                 sent_texts |-> <<>>, provider_raised |-> FALSE]
    IN  IF ~self.has_model
        THEN [none EXCEPT !.raised = "EmbeddingComputationError",
                          !.cause = "AttributeError"]
        ELSE IF ~provider_ok
        THEN [none EXCEPT !.raised = "EmbeddingComputationError",
                          !.cause = "ProviderError",
                          !.sent_texts = texts, !.provider_raised = TRUE]
        ELSE LET embeddings == embed_documents(self.embeddings_model, texts)
                 n == Len(embeddings)
             IN  [none EXCEPT !.results = [i \in 1..n |-> NpArray(embeddings[n + 1 - i])],
                              !.sent_texts = texts]

\* compute_batch_embeddings going through the token limiter and the cache
\* like compute_embedding.
compute_batch_embeddingsCached(self, texts, provider_ok) ==
    LET none == [self |-> self, raised |-> "none", cause |-> "none", results |-> <<>>,
                 sent_texts |-> <<>>, provider_raised |-> FALSE]
        limited == [i \in 1..Len(texts) |->
                       limit_token_length(texts[i], DefaultMaxTokens)]
    IN  IF ~self.has_model
        THEN [none EXCEPT !.raised = "EmbeddingComputationError",
                          !.cause = "AttributeError"]
        ELSE IF ~provider_ok
        THEN [none EXCEPT !.raised = "EmbeddingComputationError",
                          !.cause = "ProviderError",
                          !.sent_texts = limited, !.provider_raised = TRUE]
        ELSE LET embeddings == embed_documents(self.embeddings_model, limited)
                 cache == [k \in DOMAIN self.cache \cup {limited[i] : i \in 1..Len(limited)} |->
                              embed_query(self.embeddings_model, k)]
             IN  [none EXCEPT !.self = [self EXCEPT !.cache = cache],
                              !.results = [i \in 1..Len(embeddings) |-> NpArray(embeddings[i])],
                              !.sent_texts = limited]

\* compute_batch_embeddings embedding the texts one by one and returning
\* the vectors it got before the provider raised.
compute_batch_embeddingsPartial(self, texts, provider_ok) ==
    LET none == [self |-> self, raised |-> "none", cause |-> "none", results |-> <<>>,
                 sent_texts |-> <<>>, provider_raised |-> FALSE]
    IN  IF ~self.has_model
        THEN [none EXCEPT !.raised = "EmbeddingComputationError",
                          !.cause = "AttributeError"]
        ELSE LET embeddings == embed_documents(self.embeddings_model, texts)
                 n == IF provider_ok \/ Len(texts) = 0 THEN Len(texts) ELSE Len(texts) - 1
             IN  [none EXCEPT !.results = [i \in 1..n |-> NpArray(embeddings[i])],
                              !.sent_texts = texts,
                              !.provider_raised = ~provider_ok]

\* compute_batch_embeddings(self, texts).  provider_ok: embed_documents
\* returns instead of raising.
compute_batch_embeddings(self, texts, provider_ok) ==
    LET none == [self |-> self, raised |-> "none", cause |-> "none", results |-> <<>>,
                 sent_texts |-> <<>>, provider_raised |-> FALSE]
    IN  IF ~self.has_model
        THEN [none EXCEPT !.raised = "EmbeddingComputationError",
                          !.cause = "AttributeError"]
        ELSE IF ~provider_ok
        THEN [none EXCEPT !.raised = "EmbeddingComputationError",
                          !.cause = "ProviderError",
                          !.sent_texts = texts, !.provider_raised = TRUE]
        ELSE LET embeddings == embed_documents(self.embeddings_model, texts)
             IN  [none EXCEPT !.results = [i \in 1..Len(embeddings) |-> NpArray(embeddings[i])],
                              !.sent_texts = texts]

ComputeBatchEmbeddings(texts) ==
    \E id \in handed, provider_ok \in BOOLEAN :
        LET r == compute_batch_embeddings(objs[id], texts, provider_ok)
            ok == r.raised = "none"
        IN  /\ objs' = [objs EXCEPT ![id] = r.self]
            /\ last' = [NoCall EXCEPT !.op = "compute_batch_embeddings", !.texts = texts,
                                      !.outcome = IF ok THEN "ok" ELSE r.raised,
                                      !.cause = r.cause,
                                      !.provider_raised = r.provider_raised,
                                      !.results = r.results,
                                      !.sent_texts = r.sent_texts]
            /\ prev' = Summary(last)
            /\ UNCHANGED <<instance, api_key, handed, first, opened, embedded, threads>>

\* clear_cache that leaves the entries in place.
clear_cacheKeeps(self) == self

\* clear_cache that resets the whole object.
clear_cacheResetsAll(self) ==
    [self EXCEPT !.cache = EmptyCache, !.has_model = FALSE, !.embeddings_model = ""]

\* clear_cache(self): self.cache.clear()
clear_cache(self) == [self EXCEPT !.cache = EmptyCache]

ClearCache ==
    \E id \in handed :
        /\ objs' = [objs EXCEPT ![id] = clear_cache(objs[id])]
        /\ last' = [NoCall EXCEPT !.op = "clear_cache", !.outcome = "ok",
                                  !.keys = DOMAIN objs[id].cache]
        /\ prev' = Summary(last)
        /\ UNCHANGED <<instance, api_key, handed, first, opened, embedded, threads>>

-----------------------------------------------------------------------------

Next ==
    \/ \E model \in Models : GetInstance(model)
    \/ SetApiKey
    \/ \E text \in Texts : ComputeEmbedding(text)
    \/ \E texts \in Batches : ComputeBatchEmbeddings(texts)
    \/ ClearCache

Spec == Init /\ [][Next]_vars

-----------------------------------------------------------------------------
(* limit_token_length called on its own                                    *)

\* A caller about to call limit_token_length(text, max_tokens).
InitLimit ==
    /\ objs = <<>>
    /\ instance = 0
    /\ api_key = TRUE
    /\ handed = {}
    /\ first = [id |-> 0, model |-> ""]
    /\ opened = 0
    /\ embedded = {}
    /\ \E text \in LimitTexts, max_tokens \in TokenLimits :
           last = [NoCall EXCEPT !.op = "input", !.text = text,
                                 !.max_tokens = max_tokens]
    /\ prev = NoPrev
    /\ threads = [c \in Callers |-> IdleThread]

\* limit_token_length(text, max_tokens) on the arguments drawn.
LimitTokenLength ==
    /\ last.op = "input"
    /\ last' = [NoCall EXCEPT !.op = "limit_token_length", !.outcome = "ok",
                              !.text = last.text, !.max_tokens = last.max_tokens,
                              !.limited = limit_token_length(last.text, last.max_tokens)]
    /\ prev' = Summary(last)
    /\ UNCHANGED <<objs, instance, api_key, handed, first, opened, embedded, threads>>

\* limit_token_length(limited, max_tokens) on the text the call before
\* returned.
LimitTokenLengthAgain ==
    /\ last.op = "limit_token_length" /\ prev.op = "input"
    /\ last' = [NoCall EXCEPT !.op = "limit_token_length", !.outcome = "ok",
                              !.text = last.limited, !.max_tokens = last.max_tokens,
                              !.limited = limit_token_length(last.limited, last.max_tokens)]
    /\ prev' = Summary(last)
    /\ UNCHANGED <<objs, instance, api_key, handed, first, opened, embedded, threads>>

NextLimit ==
    \/ LimitTokenLength
    \/ LimitTokenLengthAgain

SpecLimit == InitLimit /\ [][NextLimit]_vars

-----------------------------------------------------------------------------
(* Two callers without synchronisation: each runs the constructor and then *)
(* compute_embedding, one source line (or one provider call) at a time.    *)

\* The texts the concurrent callers embed.
ConcTexts == {ShortText, LongText}

Goto(c, pc) == [threads EXCEPT ![c].pc = pc]

\* Line 97 for a caller that re-tests _instance before assigning it.
AllocateRechecked(os, inst) ==
    IF inst = 0
    THEN [objs |-> Append(os, NewObject), instance |-> Len(os) + 1]
    ELSE [objs |-> os, instance |-> inst]

\* Line 97: cls._instance = super().__new__(cls)
Allocate(os, inst) ==
    [objs |-> Append(os, NewObject), instance |-> Len(os) + 1]

\* Line 163 reading the entry with pop instead of a subscript.
ReturnStoredPops(self, key) ==
    IF key \in DOMAIN self.cache
    THEN [self |-> [self EXCEPT !.cache = [k \in DOMAIN self.cache \ {key} |-> self.cache[k]]],
          raised |-> "none", result |-> NpArray(self.cache[key])]
    ELSE [self |-> self, raised |-> "KeyError", result |-> <<>>]

\* Lines 163-165: return np.array(self.cache[text]).tolist()
ReturnStored(self, key) ==
    IF key \in DOMAIN self.cache
    THEN [self |-> self, raised |-> "none", result |-> NpArray(self.cache[key])]
    ELSE [self |-> self, raised |-> "KeyError", result |-> <<>>]

\* A caller calls OpenAIEmbeddingsService(model).
CallConstructor(c, model) ==
    /\ threads[c].pc = "idle"
    /\ threads' = [threads EXCEPT ![c].pc = "new_test", ![c].model = model]
    /\ UNCHANGED <<objs, instance, api_key, handed, first, opened, embedded, last, prev>>

\* Line 96: if cls._instance is None
NewTest(c) ==
    /\ threads[c].pc = "new_test"
    /\ threads' = [threads EXCEPT ![c].saw_none = (instance = 0),
                                  ![c].pc = IF instance = 0 THEN "new_alloc"
                                            ELSE "new_return"]
    /\ UNCHANGED <<objs, instance, api_key, handed, first, opened, embedded, last, prev>>

\* Line 97
NewAlloc(c) ==
    /\ threads[c].pc = "new_alloc"
    /\ LET r == Allocate(objs, instance)
       IN  /\ objs' = r.objs
           /\ instance' = r.instance
           /\ threads' = [threads EXCEPT ![c].own = r.instance, ![c].pc = "new_init"]
    /\ UNCHANGED <<api_key, handed, first, opened, embedded, last, prev>>

\* Line 98: cls._instance.__init__(model=model), on the object _instance
\* holds now.
NewCallInit(c) ==
    /\ threads[c].pc = "new_init"
    /\ threads' = [threads EXCEPT ![c].self = instance, ![c].phase = "new",
                                  ![c].pc = "init_test"]
    /\ UNCHANGED <<objs, instance, api_key, handed, first, opened, embedded, last, prev>>

\* Line 110: if not hasattr(self, 'initialized')
InitTest(c) ==
    /\ threads[c].pc = "init_test"
    /\ threads' = Goto(c, IF objs[threads[c].self].initialized THEN "init_cache"
                          ELSE "init_key")
    /\ UNCHANGED <<objs, instance, api_key, handed, first, opened, embedded, last, prev>>

\* Lines 112-116: the credential check
InitKey(c) ==
    /\ threads[c].pc = "init_key"
    /\ threads' = IF api_key THEN Goto(c, "init_open")
                  ELSE [threads EXCEPT ![c].pc = "raised",
                                       ![c].outcome = "EnvironmentError"]
    /\ UNCHANGED <<objs, instance, api_key, handed, first, opened, embedded, last, prev>>

\* Lines 119-127: self.embeddings_model = OpenAIEmbeddings(model=..., api_key=...)
InitOpen(c) ==
    /\ threads[c].pc = "init_open"
    /\ \E connects \in BOOLEAN :
           IF connects
           THEN /\ objs' = [objs EXCEPT ![threads[c].self].has_model = TRUE,
                                        ![threads[c].self].embeddings_model = threads[c].model]
                /\ opened' = IF opened < MaxOpened THEN opened + 1 ELSE opened
                /\ threads' = Goto(c, "init_cache")
           ELSE /\ threads' = [threads EXCEPT ![c].pc = "raised",
                                              ![c].outcome = "ProviderError"]
                /\ UNCHANGED <<objs, opened>>
    /\ UNCHANGED <<instance, api_key, handed, first, embedded, last, prev>>

\* Line 129: self.cache = {}
InitCache(c) ==
    /\ threads[c].pc = "init_cache"
    /\ objs' = [objs EXCEPT ![threads[c].self].has_cache = TRUE,
                            ![threads[c].self].cache = EmptyCache]
    /\ threads' = Goto(c, "init_flag")
    /\ UNCHANGED <<instance, api_key, handed, first, opened, embedded, last, prev>>

\* Line 130: self.initialized = True; then back in __new__ (line 100), or,
\* for the __init__ the constructor call itself makes, back at the caller.
InitFlag(c) ==
    /\ threads[c].pc = "init_flag"
    /\ objs' = [objs EXCEPT ![threads[c].self].initialized = TRUE]
    /\ IF threads[c].phase = "new"
       THEN /\ threads' = Goto(c, "new_return")
            /\ UNCHANGED handed
       ELSE /\ threads' = [threads EXCEPT ![c].pc = "ready", ![c].outcome = "ok"]
            /\ handed' = handed \cup {threads[c].ret}
    /\ UNCHANGED <<instance, api_key, first, opened, embedded, last, prev>>

\* Line 100: return cls._instance; the constructor call then runs __init__
\* on the object returned.
NewReturn(c) ==
    /\ threads[c].pc = "new_return"
    /\ threads' = [threads EXCEPT ![c].ret = instance, ![c].self = instance,
                                  ![c].phase = "call", ![c].pc = "init_test"]
    /\ UNCHANGED <<objs, instance, api_key, handed, first, opened, embedded, last, prev>>

\* A caller calls compute_embedding(text) on the instance it was given.
CallComputeEmbedding(c, text) ==
    /\ threads[c].pc = "ready"
    /\ threads' = [threads EXCEPT ![c].pc = "ce_test", ![c].text = text,
                                  ![c].outcome = "none"]
    /\ UNCHANGED <<objs, instance, api_key, handed, first, opened, embedded, last, prev>>

\* Line 142: if text in self.cache
CeTest(c) ==
    /\ threads[c].pc = "ce_test"
    /\ threads' = IF threads[c].text \in DOMAIN objs[threads[c].ret].cache
                  THEN Goto(c, "ce_hit")
                  ELSE [threads EXCEPT ![c].missed = TRUE, ![c].pc = "ce_embed"]
    /\ UNCHANGED <<objs, instance, api_key, handed, first, opened, embedded, last, prev>>

\* Line 145: return self.cache[text]
CeHit(c) ==
    /\ threads[c].pc = "ce_hit"
    /\ threads' = [threads EXCEPT
                      ![c].pc = "done",
                      ![c].outcome = IF threads[c].text \in DOMAIN objs[threads[c].ret].cache
                                     THEN "ok" ELSE "KeyError"]
    /\ UNCHANGED <<objs, instance, api_key, handed, first, opened, embedded, last, prev>>

\* Lines 148-158: truncate, then embed_query
CeEmbed(c) ==
    /\ threads[c].pc = "ce_embed"
    /\ \E provider_ok \in BOOLEAN :
           LET self == objs[threads[c].ret]
               effective == limit_token_length(threads[c].text, DefaultMaxTokens)
           IN  IF provider_ok
               THEN /\ threads' = [threads EXCEPT
                                      ![c].effective = effective, ![c].called = TRUE,
                                      ![c].used_model = self.embeddings_model,
                                      ![c].emb = embed_query(self.embeddings_model, effective),
                                      ![c].pc = "ce_store"]
                    /\ embedded' = embedded \cup {effective}
               ELSE /\ threads' = [threads EXCEPT
                                      ![c].effective = effective, ![c].called = TRUE,
                                      ![c].outcome = "EmbeddingComputationError",
                                      ![c].pc = "done"]
                    /\ UNCHANGED embedded
    /\ UNCHANGED <<objs, instance, api_key, handed, first, opened, last, prev>>

\* Line 161: self.cache[text] = text_embedding
CeStore(c) ==
    /\ threads[c].pc = "ce_store"
    /\ objs' = [objs EXCEPT ![threads[c].ret].cache =
                   Store(@, threads[c].effective, threads[c].emb)]
    /\ threads' = Goto(c, "ce_return")
    /\ UNCHANGED <<instance, api_key, handed, first, opened, embedded, last, prev>>

\* Lines 163-165
CeReturn(c) ==
    /\ threads[c].pc = "ce_return"
    /\ LET r == ReturnStored(objs[threads[c].ret], threads[c].effective)
       IN  /\ objs' = [objs EXCEPT ![threads[c].ret] = r.self]
           /\ threads' = [threads EXCEPT
                             ![c].pc = "done",
                             ![c].outcome = IF r.raised = "none" THEN "ok" ELSE r.raised]
    /\ UNCHANGED <<instance, api_key, handed, first, opened, embedded, last, prev>>

NextConc ==
    \E c \in Callers :
        \/ \E model \in Models : CallConstructor(c, model)
        \/ NewTest(c)
        \/ NewAlloc(c)
        \/ NewCallInit(c)
        \/ InitTest(c)
        \/ InitKey(c)
        \/ InitOpen(c)
        \/ InitCache(c)
        \/ InitFlag(c)
        \/ NewReturn(c)
        \/ \E text \in ConcTexts : CallComputeEmbedding(c, text)
        \/ CeTest(c)
        \/ CeHit(c)
        \/ CeEmbed(c)
        \/ CeStore(c)
        \/ CeReturn(c)

SpecConc == Init /\ [][NextConc]_vars

TypeOK ==
    /\ instance \in 0..Len(objs)
    /\ api_key \in BOOLEAN
    /\ handed \subseteq 1..Len(objs)
    /\ opened \in 0..MaxOpened
    /\ \A i \in 1..Len(objs) : DOMAIN objs[i].cache \subseteq embedded

-----------------------------------------------------------------------------
(* Properties                                                              *)

Cache(id) == objs[id].cache

\* C1: when compute_embedding(t) has succeeded and is called again with the
\* same t, the second call succeeds, returns the same vector and makes no
\* provider call.
C1_RepeatedCallIsCacheHit ==
    (/\ prev.op = "compute_embedding" /\ prev.outcome = "ok"
     /\ last.op = "compute_embedding" /\ last.text = prev.text)
    => (last.outcome = "ok" /\ last.result = prev.result /\ last.calls = 0)

\* C2: every cache key maps to the vector the provider gives for exactly
\* that key, and every cache key has been embedded successfully.
C2_CacheHoldsProviderVectors ==
    \A id \in 1..Len(objs) :
        \A k \in DOMAIN Cache(id) :
            /\ objs[id].has_model
            /\ Cache(id)[k] = embed_query(objs[id].embeddings_model, k)
            /\ k \in embedded

C2_Witness ==
    \E id \in 1..Len(objs) :
        /\ CutText \in DOMAIN Cache(id)
        /\ FullText \in DOMAIN Cache(id)
        /\ prev.text = LongMultibyteText
        /\ last.text = LongText

\* C3: once a get_instance call has returned, every later get_instance call
\* returns that same instance, whose provider connection is still the one
\* opened with the model of that first call.
C3_SingletonKeepsFirstModel ==
    first.id # 0 =>
        /\ instance = first.id
        /\ objs[first.id].has_model
        /\ objs[first.id].embeddings_model = first.model
        /\ last.op = "get_instance" => (last.outcome = "ok" /\ last.ret = first.id)

C3_Witness ==
    /\ first.id # 0
    /\ last.op = "get_instance" /\ last.was_initialized
    /\ last.model # first.model
    /\ last.ret = first.id

\* C4: a construction attempt that fails leaves the instance slot empty.
C4_FailedConstructionLeavesNoSingleton ==
    (last.op = "get_instance" /\ last.outcome # "ok") => instance = 0

\* C5: a get_instance call made while the credential is present and the
\* provider connection can be opened returns an initialised instance with a
\* provider connection and an empty cache, whatever failed before.
C5_RetrySucceeds ==
    (last.op = "get_instance" /\ last.had_key /\ last.connects)
    => /\ last.outcome = "ok"
       /\ instance # 0 /\ last.ret = instance
       /\ objs[instance].initialized
       /\ objs[instance].has_model /\ objs[instance].embeddings_model \in Models
       /\ objs[instance].has_cache /\ objs[instance].cache = EmptyCache

C5_Witness ==
    /\ prev.op = "get_instance" /\ prev.outcome # "ok"
    /\ last.op = "get_instance" /\ last.outcome = "ok"
    /\ last.had_key /\ last.connects

\* C6: when embed_query raises during compute_embedding, the caller gets
\* EmbeddingComputationError caused by the provider's error and the objects,
\* their caches included, are as they were before the call.
C6_FailedEmbedLeavesCache ==
    [][(last'.op = "compute_embedding" /\ last'.provider_raised)
       => (/\ last'.outcome = "EmbeddingComputationError"
           /\ last'.cause = "ProviderError"
           /\ objs' = objs)]_vars

C6_Witness ==
    /\ last.op = "compute_embedding" /\ last.provider_raised
    /\ last.sent # last.text
    /\ \E id \in handed : DOMAIN Cache(id) # {}

\* C7: whenever the provider raises, the caller receives ProviderInitError
\* (construction) or EmbeddingComputationError (embed calls) with the
\* provider's error as its cause.
C7_ProviderErrorsAreWrapped ==
    last.provider_raised =>
        /\ last.cause = "ProviderError"
        /\ last.outcome = IF last.op = "get_instance"
                          THEN "ProviderInitError"
                          ELSE "EmbeddingComputationError"

\* C8: for a text that is a cache key, clear_cache followed by
\* compute_embedding of that text makes exactly one provider call, for that
\* text.
C8_ClearThenRepeatMisses ==
    (/\ prev.op = "clear_cache"
     /\ last.op = "compute_embedding" /\ last.text \in prev.keys)
    => (last.calls = 1 /\ last.sent = last.text)

C8_Witness ==
    /\ prev.op = "clear_cache"
    /\ last.op = "compute_embedding" /\ last.text \in prev.keys
    /\ last.outcome = "ok"

\* C9: clear_cache empties the cache of its object and changes nothing else
\* (the instance slot, the objects' other attributes, the connections), and
\* a clear_cache right after a clear_cache changes nothing at all.
C9_ClearCacheFrame ==
    [][last'.op = "clear_cache"
       => (/\ \E id \in handed :
                 objs' = [objs EXCEPT ![id] = [objs[id] EXCEPT !.cache = EmptyCache]]
           /\ \A id \in handed : Cache(id)' = EmptyCache
           /\ instance' = instance /\ handed' = handed /\ opened' = opened
           /\ last.op = "clear_cache" => objs' = objs)]_vars

C9_Witness ==
    /\ prev.op = "clear_cache" /\ prev.keys # {}
    /\ last.op = "clear_cache" /\ last.keys = {}

\* C10: the provider connection is opened at most once, and only by a
\* get_instance call that returns while no initialised instance exists yet.
C10_ConnectionOpenedOnce ==
    [][/\ opened' <= 1
       /\ opened' # opened
          => (/\ last'.op = "get_instance" /\ last'.outcome = "ok"
              /\ ~last'.was_initialized /\ opened = 0)]_vars

C10_Witness ==
    /\ opened = 1
    /\ last.op = "get_instance" /\ last.was_initialized
    /\ last.had_key /\ last.connects
    /\ prev.op = "compute_batch_embeddings"

\* C11: a successful compute_batch_embeddings(texts) returns as many
\* vectors as there are texts, and vector i is the provider's vector for
\* texts[i].
C11_BatchKeepsOrder ==
    (last.op = "compute_batch_embeddings" /\ last.outcome = "ok")
    => /\ Len(last.results) = Len(last.texts)
       /\ \A i \in 1..Len(last.texts) :
              \E id \in handed :
                  last.results[i] = embed_query(objs[id].embeddings_model, last.texts[i])

C11_Witness ==
    /\ last.op = "compute_batch_embeddings" /\ last.outcome = "ok"
    /\ Len(last.texts) = MaxBatch
    /\ last.texts[1] = LongText /\ last.texts[MaxBatch] = ShortText
    /\ Len(last.results) = MaxBatch

\* C12: compute_batch_embeddings, succeeding or failing, leaves the objects
\* and their caches as they were, and hands the provider the very list it
\* was given: untruncated, in order, cached texts included.
C12_BatchBypassesCache ==
    [][last'.op = "compute_batch_embeddings"
       => (/\ objs' = objs
           /\ embedded' = embedded
           /\ last'.sent_texts = last'.texts)]_vars

C12_Witness ==
    /\ last.op = "compute_batch_embeddings"
    /\ Len(last.texts) = MaxBatch
    /\ last.texts[1] = ShortText /\ last.texts[MaxBatch] = LongText
    /\ last.sent_texts = last.texts
    /\ \E id \in handed : ShortText \in DOMAIN Cache(id)

\* C13: when embed_documents raises, compute_batch_embeddings raises
\* EmbeddingComputationError caused by the provider's error and the caller
\* gets no vector.
C13_BatchAllOrNothing ==
    (last.op = "compute_batch_embeddings" /\ last.provider_raised)
    => /\ last.outcome = "EmbeddingComputationError"
       /\ last.cause = "ProviderError"
       /\ last.results = <<>>

C13_Witness ==
    /\ last.op = "compute_batch_embeddings" /\ last.provider_raised
    /\ Len(last.texts) = MaxBatch
    /\ last.outcome = "EmbeddingComputationError"

\* C16: a constructor call on a service that is already initialised leaves
\* the objects, their caches included, as they were.
C16_GetInstanceKeepsCache ==
    [][(last'.op = "get_instance" /\ last'.was_initialized) => objs' = objs]_vars

C20_ComputeEmbeddingOnlyAdds ==
    [][last'.op = "compute_embedding"
       => \A id \in handed :
              /\ \A k \in DOMAIN Cache(id) :
                     k \in DOMAIN Cache(id)' /\ Cache(id)'[k] = Cache(id)[k]
              /\ (last'.outcome = "ok" /\ last'.calls = 0)
                 => (objs' = objs /\ last'.sent = <<>>
                     /\ last'.text \in DOMAIN Cache(id)
                     /\ last'.result = Cache(id)[last'.text])
              /\ (last'.outcome = "ok" /\ last'.calls = 1)
                 => (/\ DOMAIN Cache(id)' = DOMAIN Cache(id) \cup {last'.sent}
                     /\ last'.sent = limit_token_length(last'.text, DefaultMaxTokens)
                     /\ Cache(id)'[last'.sent] = last'.result)]_vars

C20_Witness ==
    /\ last.op = "compute_embedding" /\ last.outcome = "ok" /\ last.calls = 1
    /\ last.sent # last.text
    /\ prev.op = "compute_embedding" /\ prev.outcome = "ok" /\ prev.text = ShortText
    /\ \E id \in handed : DOMAIN Cache(id) = {ShortText, last.sent}

Past(c, pcs) == threads[c].pc \in pcs

\* C18: every caller that finds _instance None at line 96 allocates an
\* object of its own at line 97, whatever the other caller has done in
\* between, and every object with a provider connection had one opened for
\* it; so two callers that both pass the test construct two instances, each
\* of which can get a connection.
C18_RacingCallersConstructTwice ==
    /\ \A c \in Callers :
           (threads[c].saw_none /\ ~Past(c, {"idle", "new_test", "new_alloc"}))
           => threads[c].own \in 1..Len(objs)
    /\ \A c, d \in Callers :
           (c # d /\ threads[c].own # 0 /\ threads[d].own # 0)
           => threads[c].own # threads[d].own
    /\ Len(objs) = Cardinality({c \in Callers : threads[c].own # 0})
    /\ \/ opened >= Cardinality({i \in 1..Len(objs) : objs[i].has_model})
       \/ opened = MaxOpened

C18_Witness ==
    /\ \A c \in Callers : threads[c].saw_none /\ threads[c].pc = "ready"
    /\ Len(objs) = 2
    /\ objs[1].has_model /\ objs[2].has_model
    /\ opened >= 2

\* C19: when two callers have both missed the cache for the same text on
\* the same instance, both called the provider and both returned, they
\* wrote the same key, and the cache holds that key with the vector the
\* provider gave one of them for it.
C19_ConcurrentMissesWriteSameKey ==
    \A c, d \in Callers :
        (/\ c # d
         /\ threads[c].pc = "done" /\ threads[d].pc = "done"
         /\ threads[c].outcome = "ok" /\ threads[d].outcome = "ok"
         /\ threads[c].missed /\ threads[d].missed
         /\ threads[c].ret = threads[d].ret
         /\ threads[c].text = threads[d].text)
        => LET key == threads[c].effective
               cache == objs[threads[c].ret].cache
           IN  /\ threads[c].called /\ threads[d].called
               /\ threads[d].effective = key
               /\ key = limit_token_length(threads[c].text, DefaultMaxTokens)
               /\ key \in DOMAIN cache
               /\ \E m \in {threads[c].used_model, threads[d].used_model} :
                      cache[key] = embed_query(m, key)

C19_Witness ==
    /\ \A c \in Callers :
           /\ threads[c].pc = "done" /\ threads[c].outcome = "ok"
           /\ threads[c].missed /\ threads[c].called
           /\ threads[c].text = LongText
           /\ threads[c].ret = 1
    /\ Len(objs) = 1
    /\ DOMAIN objs[1].cache = {FullText}

====
